---- MODULE Spec2Model ----
(***************************************************************************)
(* Clairadol Impact Calculator (impact_calculator.py).                     *)
(*                                                                         *)
(* The page is re-executed in full on every slider change: main() reads    *)
(* the slider, calls calculate_metrics and renders the metrics.            *)
(*                                                                         *)
(* calculate_metrics works on Python floats.  A float is modelled as the   *)
(* IEEE-754 binary64 number it is: a record [m, e] denoting m * 2^e, where *)
(* m is an odd natural number of at most 53 bits, kept as a sequence of    *)
(* limbs, least significant limb first (<< >> is zero).  Every arithmetic  *)
(* operation computes the exact result and rounds it to the nearest        *)
(* binary64 number, ties to even, as the hardware does.  All values of the *)
(* program lie between 0.01 and 2^22, far from overflow and subnormals.    *)
(***************************************************************************)
EXTENDS Integers, Sequences

(* ---------------- naturals of arbitrary size ---------------------------- *)
(* A natural number is a sequence of limbs in base 2^8, least significant  *)
(* limb first, without zero limbs at the most significant end.             *)

BASE == 2^8
LIMB_BITS == 8

RECURSIVE NatLimbs(_)
NatLimbs(n) == IF n = 0 THEN << >> ELSE <<n % BASE>> \o NatLimbs(n \div BASE)

RECURSIVE LimbsNat(_)
LimbsNat(b) == IF b = << >> THEN 0 ELSE Head(b) + BASE * LimbsNat(Tail(b))

Zeros(k) == [i \in 1..k |-> 0]

\* drop the zero limbs at the most significant end
RECURSIVE StripHigh(_)
StripHigh(b) ==
    IF b = << >> THEN << >>
    ELSE IF b[Len(b)] = 0 THEN StripHigh(SubSeq(b, 1, Len(b) - 1))
    ELSE b

RECURSIVE AddLimbs(_, _, _)
AddLimbs(a, b, carry) ==
    IF a = << >> /\ b = << >>
    THEN IF carry = 1 THEN <<1>> ELSE << >>
    ELSE LET x == IF a = << >> THEN 0 ELSE Head(a)
             y == IF b = << >> THEN 0 ELSE Head(b)
             s == x + y + carry
             ta == IF a = << >> THEN << >> ELSE Tail(a)
             tb == IF b = << >> THEN << >> ELSE Tail(b)
         IN  <<s % BASE>> \o AddLimbs(ta, tb, s \div BASE)

\* a - b for a >= b
RECURSIVE SubLimbsRaw(_, _, _)
SubLimbsRaw(a, b, borrow) ==
    IF a = << >> THEN << >>
    ELSE LET y == IF b = << >> THEN 0 ELSE Head(b)
             d == Head(a) - y - borrow
             tb == IF b = << >> THEN << >> ELSE Tail(b)
         IN  <<d % BASE>> \o SubLimbsRaw(Tail(a), tb, IF d < 0 THEN 1 ELSE 0)

SubLimbs(a, b) == StripHigh(SubLimbsRaw(a, b, 0))

\* a * c + carry for a small natural c
RECURSIVE MulLimbs(_, _, _)
MulLimbs(a, c, carry) ==
    IF a = << >> THEN NatLimbs(carry)
    ELSE LET t == Head(a) * c + carry
         IN  <<t % BASE>> \o MulLimbs(Tail(a), c, t \div BASE)

\* long division of a by a small natural d > 0, from limb i downwards:
\* [q |-> quotient, r |-> remainder]
RECURSIVE DivLimbsFrom(_, _, _, _)
DivLimbsFrom(a, d, i, rem) ==
    IF i = 0 THEN [q |-> << >>, r |-> rem]
    ELSE LET t == BASE * rem + a[i]
             rest == DivLimbsFrom(a, d, i - 1, t % d)
         IN  [q |-> rest.q \o <<t \div d>>, r |-> rest.r]

StripQuotient(res) == [q |-> StripHigh(res.q), r |-> res.r]

DivLimbs(a, d) == StripQuotient(DivLimbsFrom(a, d, Len(a), 0))

\* TRUE iff a < b
RECURSIVE LessFrom(_, _, _)
LessFrom(a, b, i) ==
    IF i = 0 THEN FALSE
    ELSE IF a[i] # b[i] THEN a[i] < b[i]
    ELSE LessFrom(a, b, i - 1)

LessLimbs(a, b) ==
    IF Len(a) # Len(b) THEN Len(a) < Len(b) ELSE LessFrom(a, b, Len(a))

\* a * 2^k
ShiftLeft(a, k) ==
    IF a = << >> THEN << >>
    ELSE Zeros(k \div LIMB_BITS) \o MulLimbs(a, 2^(k % LIMB_BITS), 0)

\* number of bits of a
BitLen(a) ==
    IF a = << >> THEN 0
    ELSE LIMB_BITS * (Len(a) - 1)
         + (CHOOSE n \in 1..LIMB_BITS : 2^(n - 1) <= a[Len(a)] /\ a[Len(a)] < 2^n)

\* number of zero bits at the least significant end of a non-zero a
LowZeroBits(a) ==
    LET j == CHOOSE i \in 1..Len(a) : a[i] # 0 /\ \A h \in 1..(i - 1) : a[h] = 0
        z == CHOOSE n \in 0..(LIMB_BITS - 1) :
                 a[j] % 2^n = 0 /\ a[j] % 2^(n + 1) # 0
    IN  LIMB_BITS * (j - 1) + z

\* floor(a / 2^k): [q |-> quotient, exact |-> nothing was cut off]
HighLimbs(a, w) == IF w >= Len(a) THEN << >> ELSE SubSeq(a, w + 1, Len(a))

ShiftRightCut(a, w, res) ==
    [q |-> res.q,
     exact |-> res.r = 0 /\ \A j \in 1..w : j > Len(a) \/ a[j] = 0]

ShiftRight(a, k) ==
    ShiftRightCut(a, k \div LIMB_BITS,
                  DivLimbs(HighLimbs(a, k \div LIMB_BITS), 2^(k % LIMB_BITS)))

\* a / 2^k rounded to the nearest natural, ties to even; sticky = 1 says
\* that a non-zero amount below the lowest bit of a was already cut off
\* kept, the bit below it (guard) and whether anything lies below that
RoundUp(kept, guard, below) ==
    IF guard = 1 /\ (below \/ (kept # << >> /\ kept[1] % 2 = 1))
    THEN AddLimbs(kept, <<1>>, 0)
    ELSE kept

RoundHalf(half, below) == RoundUp(half.q, half.r, below)

RoundCut(t, sticky) == RoundHalf(DivLimbs(t.q, 2), sticky = 1 \/ ~t.exact)

RoundShift(a, k, sticky) ==
    IF k <= 0 THEN ShiftLeft(a, -k)
    ELSE RoundCut(ShiftRight(a, k - 1), sticky)

(* ---------------- binary64 ---------------------------------------------- *)

\* bits in the significand of a Python float
MANT_DIG == 53

\* the exact number m * 2^e in canonical form (m odd, or zero)
Zero == [m |-> << >>, e |-> 0]

CanonOdd(s, e, z) == [m |-> ShiftRight(s, z).q, e |-> e + z]

CanonStripped(s, e) ==
    IF s = << >> THEN Zero ELSE CanonOdd(s, e, LowZeroBits(s))

Canon(m, e) == CanonStripped(StripHigh(m), e)

\* float(n) for an int n that fits 53 bits
FromInt(n) == Canon(NatLimbs(n), 0)

\* the binary64 number nearest to m * 2^e (+ something below, if sticky)
RoundExcess(s, e, sticky, k) ==
    IF k <= 0 THEN CanonStripped(s, e)
    ELSE Canon(RoundShift(s, k, sticky), e + k)

RoundStripped(s, e, sticky) == RoundExcess(s, e, sticky, BitLen(s) - MANT_DIG)

RoundFloat(m, e, sticky) == RoundStripped(StripHigh(m), e, sticky)

\* the binary64 number nearest to the exact number s
RoundExact(s) == RoundFloat(s.m, s.e, 0)

\* exact sum and exact difference (x >= y) of two dyadic numbers
ExactAdd(x, y) ==
    LET e == IF x.e < y.e THEN x.e ELSE y.e
    IN  IF x.m = << >> THEN y
        ELSE IF y.m = << >> THEN x
        ELSE Canon(AddLimbs(ShiftLeft(x.m, x.e - e), ShiftLeft(y.m, y.e - e), 0), e)

ExactSub(x, y) ==
    LET e == IF x.e < y.e THEN x.e ELSE y.e
    IN  IF y.m = << >> THEN x
        ELSE Canon(SubLimbs(ShiftLeft(x.m, x.e - e), ShiftLeft(y.m, y.e - e)), e)

\* exact product of a dyadic number and a small natural
ExactMul(x, c) == Canon(MulLimbs(x.m, c, 0), x.e)

\* x < y on exact values
ExactLess(x, y) ==
    LET e == IF x.e < y.e THEN x.e ELSE y.e
    IN  IF y.m = << >> THEN FALSE
        ELSE IF x.m = << >> THEN TRUE
        ELSE LessLimbs(ShiftLeft(x.m, x.e - e), ShiftLeft(y.m, y.e - e))

\* float + float, float - float (x >= y), int * float
FloatAdd(x, y) == RoundExact(ExactAdd(x, y))
FloatSub(x, y) == RoundExact(ExactSub(x, y))
FloatMul(c, x) == RoundExact(ExactMul(x, c))

\* float / int for d > 0: the quotient is developed to more than
\* MANT_DIG + 2 bits, the remainder gives the sticky bit
RoundQuotient(res, e) == RoundFloat(res.q, e, IF res.r = 0 THEN 0 ELSE 1)

FloatDiv(x, d) ==
    IF x.m = << >> THEN Zero
    ELSE RoundQuotient(DivLimbs(ShiftLeft(x.m, 2 * MANT_DIG), d),
                       x.e - 2 * MANT_DIG)

\* round(x): nearest int, ties to even
PyRound(x) ==
    IF x.m = << >> THEN 0 ELSE LimbsNat(RoundShift(x.m, -x.e, 0))

\* the digits of f"{x:.2f}", as a number of cents
Format2f(x) ==
    IF x.m = << >> THEN 0
    ELSE LimbsNat(RoundShift(MulLimbs(x.m, 100, 0), -x.e, 0))

(* ---------------- calculate_metrics -------------------------------------- *)

\* Constants from the data
TOTAL_POTENTIAL_LIVES == 14227
CHILDREN_POTENTIAL_LIVES == 9647
ADULT_POTENTIAL_LIVES == 4580

\* Cost constants (in USD)
HUFFSTATIN_TOTAL_COST == 3329170
CLAIRADOL_TOTAL_COST == 3348239

\* Age group costs with Huffstatin
HUFFSTATIN_CHILDREN_COST == 2407888
HUFFSTATIN_ADULT_COST == 921283

\* Age group costs with Clairadol
CLAIRADOL_CHILDREN_COST == 2182241
\* slip: the Clairadol children constant pasted into the adult one
CLAIRADOL_ADULT_COST_Pasted == CLAIRADOL_CHILDREN_COST
CLAIRADOL_ADULT_COST == 1165998

\* slip: the Huffstatin total taken as the sum of its age groups
COST_DIFFERENCE_FromAgeGroups ==
    CLAIRADOL_TOTAL_COST - (HUFFSTATIN_CHILDREN_COST + HUFFSTATIN_ADULT_COST)
COST_DIFFERENCE == CLAIRADOL_TOTAL_COST - HUFFSTATIN_TOTAL_COST

\* x / d in Python: raises ZeroDivisionError for d = 0
TrueDiv(x, d) ==
    IF d = 0 THEN [raised |-> TRUE, value |-> Zero]
    ELSE [raised |-> FALSE, value |-> FloatDiv(x, d)]

\* actual_rate = adoption_rate / 100
ActualRate(adoption_rate) == TrueDiv(FromInt(adoption_rate), 100)

\* int(x): x cut off at the decimal point
PyTrunc(x) ==
    IF x.m = << >> THEN 0
    ELSE IF x.e >= 0 THEN LimbsNat(ShiftLeft(x.m, x.e))
    ELSE LimbsNat(ShiftRight(x.m, -x.e).q)

\* slip: int() in place of round()
LivesSaved_Truncated(potential, actual_rate) ==
    PyTrunc(FloatMul(potential, actual_rate))

\* slip: the share that did not adopt in place of the share that did
LivesSaved_Complement(potential, actual_rate) ==
    PyRound(FloatMul(potential, FloatSub(FromInt(1), actual_rate)))

\* slip: every count is taken from the total potential
LivesSaved_AlwaysTotal(potential, actual_rate) ==
    PyRound(FloatMul(TOTAL_POTENTIAL_LIVES, actual_rate))

\* round(POTENTIAL_LIVES * actual_rate)
LivesSaved(potential, actual_rate) == PyRound(FloatMul(potential, actual_rate))

\* slip: Huffstatin charged for the share that adopted Clairadol
HuffstatinCost_Swapped(cost, actual_rate) == FloatMul(cost, actual_rate)

\* COST * (1 - actual_rate)
HuffstatinCost(cost, actual_rate) ==
    FloatMul(cost, FloatSub(FromInt(1), actual_rate))

\* slip: Clairadol charged for the share that stayed on Huffstatin
ClairadolCost_Swapped(cost, actual_rate) ==
    FloatMul(cost, FloatSub(FromInt(1), actual_rate))

\* COST * actual_rate
ClairadolCost(cost, actual_rate) == FloatMul(cost, actual_rate)

\* costs['huffstatin']['total'] + costs['clairadol']['total']
TotalCost(costs) == FloatAdd(costs.huffstatin.total, costs.clairadol.total)

\* slip: the guard on the denominator is missing
CostPerLifeSaved_Unguarded(actual_rate, total) ==
    TrueDiv(FloatMul(COST_DIFFERENCE, actual_rate), total)

\* slip: the spend is divided by the potential, not the actual, lives saved
CostPerLifeSaved_PerPotential(actual_rate, total) ==
    IF total > 0
    THEN TrueDiv(FloatMul(COST_DIFFERENCE, actual_rate), TOTAL_POTENTIAL_LIVES)
    ELSE [raised |-> FALSE, value |-> Zero]

\* (COST_DIFFERENCE * actual_rate) / lives_saved['total']
\*     if lives_saved['total'] > 0 else 0
CostPerLifeSaved(actual_rate, total) ==
    IF total > 0
    THEN TrueDiv(FloatMul(COST_DIFFERENCE, actual_rate), total)
    ELSE [raised |-> FALSE, value |-> Zero]

\* slip: the total cost, not the difference, per potential life
BaselineCostPerLife_TotalCost ==
    TrueDiv(FromInt(CLAIRADOL_TOTAL_COST), TOTAL_POTENTIAL_LIVES)

\* COST_DIFFERENCE / TOTAL_POTENTIAL_LIVES
BaselineCostPerLife == TrueDiv(FromInt(COST_DIFFERENCE), TOTAL_POTENTIAL_LIVES)

\* lives_saved = {...}
LivesSavedDict(actual_rate) ==
    [children |-> LivesSaved(CHILDREN_POTENTIAL_LIVES, actual_rate),
     adults   |-> LivesSaved(ADULT_POTENTIAL_LIVES, actual_rate),
     total    |-> LivesSaved(TOTAL_POTENTIAL_LIVES, actual_rate)]

\* costs = {...}
CostsDict(actual_rate) ==
    [huffstatin |->
        [total    |-> HuffstatinCost(HUFFSTATIN_TOTAL_COST, actual_rate),
         children |-> HuffstatinCost(HUFFSTATIN_CHILDREN_COST, actual_rate),
         adults   |-> HuffstatinCost(HUFFSTATIN_ADULT_COST, actual_rate)],
     clairadol |->
        [total    |-> ClairadolCost(CLAIRADOL_TOTAL_COST, actual_rate),
         children |-> ClairadolCost(CLAIRADOL_CHILDREN_COST, actual_rate),
         adults   |-> ClairadolCost(CLAIRADOL_ADULT_COST, actual_rate)]]

\* the tuple calculate_metrics returns; exception tells whether one of the
\* three divisions (rate, cpl, base) raised instead
Return(rate, lives_saved, costs, cpl, base) ==
    [lives_saved            |-> lives_saved,
     costs                  |-> costs,
     total_cost             |-> TotalCost(costs),
     cost_per_life_saved    |-> cpl.value,
     cost_difference        |-> COST_DIFFERENCE,
     baseline_cost_per_life |-> base.value,
     exception              |->
         IF rate.raised \/ cpl.raised \/ base.raised
         THEN "ZeroDivisionError" ELSE "none"]

\* the body of calculate_metrics from the lives saved on
AfterLivesSaved(rate, lives_saved) ==
    Return(rate, lives_saved, CostsDict(rate.value),
           CostPerLifeSaved(rate.value, lives_saved.total),
           BaselineCostPerLife)

\* the body of calculate_metrics once actual_rate is computed
AfterActualRate(rate) == AfterLivesSaved(rate, LivesSavedDict(rate.value))

calculate_metrics(adoption_rate) == AfterActualRate(ActualRate(adoption_rate))

(* ---------------- main --------------------------------------------------- *)

\* st.sidebar.slider(min_value=0, max_value=100, value=50, step=1)
SLIDER_MIN == 0
SLIDER_MAX == 100
SLIDER_DEFAULT == 50
SLIDER_STEP == 1

SliderValues ==
    {v \in SLIDER_MIN..SLIDER_MAX : (v - SLIDER_MIN) % SLIDER_STEP = 0}

\* what one run of the page shows for the metrics m computed at slider
\* value adoption_rate; money is shown with two decimals and is kept here
\* as a number of cents, the chart bars are the raw numbers
Render(m, adoption_rate) ==
    [children_lives_saved |-> m.lives_saved.children,
     adult_lives_saved    |-> m.lives_saved.adults,
     total_lives_saved    |-> m.lives_saved.total,
     lives_chart          |-> <<m.lives_saved.children, m.lives_saved.adults>>,
     total_treatment_cost |-> Format2f(m.total_cost),
     additional_cost      |->
         Format2f(FloatDiv(FromInt(m.cost_difference * adoption_rate), 100)),
     cost_per_life_saved  |-> Format2f(m.cost_per_life_saved),
     cost_chart           |->
         [huffstatin |-> <<m.costs.huffstatin.children, m.costs.huffstatin.adults>>,
          clairadol  |-> <<m.costs.clairadol.children, m.costs.clairadol.adults>>],
     base_cost_difference |-> Format2f(FromInt(m.cost_difference)),
     baseline_cost_per_life |-> Format2f(m.baseline_cost_per_life)]

VARIABLES
    adoption_rate,   \* the value of the slider
    metrics,         \* what calculate_metrics returned in the last run
    shown            \* what the last run rendered

vars == <<adoption_rate, metrics, shown>>

\* the first run of the page, slider at its default
Init ==
    /\ adoption_rate = SLIDER_DEFAULT
    /\ metrics = calculate_metrics(adoption_rate)
    /\ shown = Render(metrics, adoption_rate)

\* slip: the metrics of the run before are kept instead of recomputed
main_Cached(r) ==
    /\ adoption_rate' = r
    /\ metrics' = metrics
    /\ shown' = Render(metrics, r)

\* the user moves the slider to r: the script runs again from the top
main(r) ==
    /\ adoption_rate' = r
    /\ metrics' = calculate_metrics(r)
    /\ shown' = Render(metrics', r)

Next == \E r \in SliderValues : main(r)

Spec == Init /\ [][Next]_vars

(* ---------------- properties ---------------------------------------------- *)

\* |x - y| on exact values
AbsDiff(x, y) == IF ExactLess(x, y) THEN ExactSub(y, x) ELSE ExactSub(x, y)

\* x and y differ by less than 10^-6
Within(x, y) == ExactLess(ExactMul(AbsDiff(x, y), 10^6), FromInt(1))

\* x differs from n / 100 by less than 10^-6
WithinHundredths(x, n) ==
    ExactLess(AbsDiff(ExactMul(x, 10^6), ExactMul(FromInt(n), 10^4)), FromInt(1))

\* C1: at adoption rate 0 no life is saved, cost_per_life_saved is 0 and
\* total_cost is 3,329,170.00: all of the Huffstatin cost, no Clairadol cost.
C1_ZeroAdoption ==
    adoption_rate = 0 =>
        /\ metrics.lives_saved = [children |-> 0, adults |-> 0, total |-> 0]
        /\ metrics.cost_per_life_saved = Zero
        /\ metrics.total_cost = FromInt(3329170)
        /\ metrics.costs.huffstatin.total = FromInt(3329170)
        /\ metrics.costs.clairadol.total = Zero
        /\ shown.total_treatment_cost = 332917000

C1_Witness == adoption_rate = 0 /\ shown.total_lives_saved = 0

\* C2: at adoption rate 100 the lives saved are 9647, 4580 and 14227,
\* total_cost is 3,348,239.00 and cost_per_life_saved is 19069/14227, shown
\* as 1.34 and equal to baseline_cost_per_life.
C2_FullAdoption ==
    adoption_rate = 100 =>
        /\ metrics.lives_saved =
               [children |-> 9647, adults |-> 4580, total |-> 14227]
        /\ metrics.total_cost = FromInt(3348239)
        /\ shown.total_treatment_cost = 334823900
        /\ metrics.cost_per_life_saved = FloatDiv(FromInt(19069), 14227)
        /\ shown.cost_per_life_saved = 134
        /\ metrics.cost_per_life_saved = metrics.baseline_cost_per_life

C2_Witness == adoption_rate = 100 /\ shown.total_lives_saved = 14227

\* C3: at adoption rate 50 total_cost is 3,338,704.50 (1,664,585 of
\* Huffstatin plus 1,674,119.50 of Clairadol) and the total of lives
\* saved is 7114: the product 14227 * 0.5 is exactly 7113.5, a tie, which
\* round() takes to the even neighbour 7114.
C3_HalfAdoption ==
    adoption_rate = 50 =>
        /\ metrics.costs.huffstatin.total = FromInt(1664585)
        /\ ExactMul(metrics.costs.clairadol.total, 2) = FromInt(3348239)
        /\ ExactMul(metrics.total_cost, 2) = FromInt(6677409)
        /\ shown.total_treatment_cost = 333870450
        /\ ExactMul(FloatMul(14227, ActualRate(50).value), 2) = FromInt(14227)
        /\ metrics.lives_saved.total = 7114

C3_Witness ==
    adoption_rate = 50 /\ shown.total_lives_saved = 7114
        /\ shown.total_treatment_cost = 333870450

\* C4: moving the slider from r1 to r2 >= r1 never lowers any of the three
\* lives-saved counts.
C4_Monotone ==
    [][adoption_rate <= adoption_rate' =>
          /\ metrics.lives_saved.children <= metrics'.lives_saved.children
          /\ metrics.lives_saved.adults <= metrics'.lives_saved.adults
          /\ metrics.lives_saved.total <= metrics'.lives_saved.total]_vars

C4_Witness ==
    /\ adoption_rate > SLIDER_DEFAULT
    /\ metrics.lives_saved.total > 7114
    /\ metrics.lives_saved.children > 4824
    /\ metrics.lives_saved.adults > 2290

\* C5: cost_difference is 19,069 whatever the adoption rate, also after any
\* sequence of slider changes.
C5_CostDifference ==
    /\ metrics.cost_difference = 19069
    /\ shown.base_cost_difference = 1906900

C5_Witness ==
    /\ adoption_rate # SLIDER_DEFAULT
    /\ metrics.cost_difference = 19069
    /\ shown.additional_cost # 953450

\* C6: calculate_metrics never divides by zero: the division happens only
\* when the total of lives saved is positive, otherwise 0 is returned; among
\* the slider values that is the case at adoption rate 0 and nowhere else.
C6_NoDivisionByZero ==
    /\ metrics.exception = "none"
    /\ metrics.lives_saved.total > 0 <=> adoption_rate >= 1
    /\ metrics.lives_saved.total > 0 =>
           metrics.cost_per_life_saved =
               FloatDiv(FloatMul(19069, ActualRate(adoption_rate).value),
                        metrics.lives_saved.total)
    /\ metrics.lives_saved.total = 0 =>
           metrics.cost_per_life_saved = Zero /\ shown.cost_per_life_saved = 0
    /\ adoption_rate >= 1 => metrics.cost_per_life_saved # Zero

C6_Witness ==
    /\ adoption_rate = 0
    /\ metrics.lives_saved.total = 0
    /\ metrics.exception = "none"
    /\ shown.cost_per_life_saved = 0

\* C7: whatever slider values came before, what is computed and shown is
\* what calculate_metrics gives for the current slider value alone.
C7_HistoryFree ==
    /\ metrics = calculate_metrics(adoption_rate)
    /\ shown = Render(calculate_metrics(adoption_rate), adoption_rate)

C7_Witness ==
    /\ adoption_rate = 37
    /\ shown.total_lives_saved = 5264
    /\ shown.total_treatment_cost = 333622553

\* C8 as stated: for every rate r in 1..100, cost_per_life_saved times the
\* total of lives saved = total_cost(r) - total_cost(0) = 19,069 * r / 100,
\* the number shown as Additional Cost.
C8_Original ==
    adoption_rate >= 1 =>
        LET additional == FloatDiv(FromInt(19069 * adoption_rate), 100)
            base       == calculate_metrics(0).total_cost
        IN  /\ FloatMul(metrics.lives_saved.total, metrics.cost_per_life_saved)
                   = additional
            /\ ~ExactLess(metrics.total_cost, base)
            /\ FloatSub(metrics.total_cost, base) = additional

\* C8 amended: for every rate r in 1..100, cost_per_life_saved times the
\* total of lives saved, and total_cost(r) - total_cost(0), both differ from
\* 19,069 * r / 100 by less than 10^-6 (floating-point rounding); the
\* Additional Cost shown, with two decimals, is exactly 19,069 * r / 100.
C8_Incremental ==
    adoption_rate >= 1 =>
        LET base == calculate_metrics(0).total_cost
        IN  /\ metrics.lives_saved.total > 0
            /\ WithinHundredths(
                   ExactMul(metrics.cost_per_life_saved, metrics.lives_saved.total),
                   19069 * adoption_rate)
            /\ ~ExactLess(metrics.total_cost, base)
            /\ WithinHundredths(ExactSub(metrics.total_cost, base),
                                19069 * adoption_rate)
            /\ shown.additional_cost = 19069 * adoption_rate

C8_Witness ==
    /\ adoption_rate = 90
    /\ shown.additional_cost = 1716210
    /\ shown.cost_per_life_saved = 134

\* C9: the total of lives saved differs from children + adults by at most 1;
\* the three counts are rounded one by one, so the sum is exact at rates 0,
\* 50 and 100 but not at every rate.
C9_TotalNearSum ==
    LET sum == metrics.lives_saved.children + metrics.lives_saved.adults
    IN  /\ metrics.lives_saved.total - sum \in {-1, 0, 1}
        /\ adoption_rate \in {0, 50, 100} => metrics.lives_saved.total = sum

C9_Witness ==
    /\ adoption_rate = 87
    /\ metrics.lives_saved.total = 12377
    /\ metrics.lives_saved.children + metrics.lives_saved.adults = 12378

\* C10 as stated: Clairadol children + adults cost = Clairadol total cost;
\* Huffstatin children + adults cost = Huffstatin total cost + (100 - r)/100
\* exactly; the four age-group costs sum to total_cost only at r = 100.
C10_Original ==
    LET h == metrics.costs.huffstatin
        c == metrics.costs.clairadol
    IN  /\ ExactAdd(c.children, c.adults) = c.total
        /\ ExactMul(ExactAdd(h.children, h.adults), 100)
               = ExactAdd(ExactMul(h.total, 100), FromInt(100 - adoption_rate))
        /\ ExactAdd(ExactAdd(h.children, h.adults), ExactAdd(c.children, c.adults))
               = metrics.total_cost <=> adoption_rate = 100

\* C10 amended: at every slider value r, Clairadol children + adults cost
\* differs from the Clairadol total cost, and Huffstatin children + adults
\* cost from the Huffstatin total cost + (100 - r)/100, by less than 10^-6
\* (floating-point rounding); the four age-group costs sum to total_cost
\* only at r = 100.
C10_AgeGroupSums ==
    LET h == metrics.costs.huffstatin
        c == metrics.costs.clairadol
    IN  /\ Within(ExactAdd(c.children, c.adults), c.total)
        /\ ExactLess(h.total, ExactAdd(h.children, h.adults))
               \/ adoption_rate = 100
        /\ WithinHundredths(
               ExactSub(ExactAdd(h.children, h.adults), h.total),
               100 - adoption_rate)
        /\ ExactAdd(ExactAdd(h.children, h.adults), ExactAdd(c.children, c.adults))
               = metrics.total_cost <=> adoption_rate = 100

C10_Witness ==
    /\ adoption_rate = 87
    /\ ExactAdd(metrics.costs.clairadol.children, metrics.costs.clairadol.adults)
           # metrics.costs.clairadol.total
    /\ shown.total_treatment_cost = 334576003

====
